---- MODULE Spec2Model ----
(***************************************************************************)
(* A model of main() of neo4j-client (src/src/bin/neo4j-client.c): the     *)
(* option loop, the post-parse checks, connection setup, the choice of the *)
(* execution mode, the -i/-o pipeline and the cleanup block.               *)
(*                                                                         *)
(* The functions main() calls that live in other files of the repository   *)
(* (source, batch, interact, redirect_output, db_connect, shell_state_init)*)
(* are modelled from the natural-language specification; they are marked   *)
(* so where they are defined.                                              *)
(***************************************************************************)
EXTENDS Integers, Sequences, FiniteSets, TLC

(***************************************************************************)
(* Bounds of the explored invocations.                                     *)
(***************************************************************************)
\* Number of options in a freely composed argument vector.
MaxArgs == 3
\* Largest number given to --source-max-depth and --pipeline-max.
MaxNum == 2

(***************************************************************************)
(* Program constants.                                                      *)
(***************************************************************************)
NEO4J_MAX_FILE_IO_ARGS == 128

\* state.source_max_depth and state.pipeline_max as shell_state_init leaves
\* them ("default small constant").
DEFAULT_SOURCE_MAX_DEPTH == 2
DEFAULT_PIPELINE_MAX == 2

EXIT_SUCCESS == "success"
EXIT_FAILURE == "failure"

(***************************************************************************)
(* Inputs.                                                                 *)
(***************************************************************************)
\* Files named by -i / :source.  "s1" holds one statement; "s2" holds a
\* statement followed by a directive that sources "s2" again, so that a
\* chain of inclusions of any length is requested and only the depth guard
\* ends it.
SourceFiles == {"s1", "s2"}
OutputFiles == {"o1"}
\* The file repeated by the long argument vectors that fill the queue.
FillerFile == "s1"

Stmt(n) == [kind |-> "stmt", arg |-> n]
SourceDirective(f) == [kind |-> "source", arg |-> f]

FileScript(f) ==
    IF f = "s2" THEN <<Stmt("q2"), SourceDirective("s2")>>
    ELSE <<Stmt("q1")>>

\* What is read from standard input (batch) or typed at the prompt
\* (interactive): a statement, then a :source directive.
StdinScript == <<Stmt("q0"), SourceDirective("s2")>>

\* Option arguments are character strings, here sequences of characters.
Digit == [n \in 0..9 |-> CASE n = 0 -> "0" [] n = 1 -> "1" [] n = 2 -> "2"
                           [] n = 3 -> "3" [] n = 4 -> "4" [] n = 5 -> "5"
                           [] n = 6 -> "6" [] n = 7 -> "7" [] n = 8 -> "8"
                           [] OTHER -> "9"]
DigitChars == {Digit[n] : n \in 0..9}
DigitValue(c) == CHOOSE n \in 0..9 : Digit[n] = c

NumOptArgs ==
    {<<Digit[n]>> : n \in 0..MaxNum}
        \cup {<<"-", Digit[1]>>, <<"a", "b">>, <<Digit[2], "x">>}

\* atoi(): optional sign, then the longest run of leading digits; 0 when
\* there is none.
RECURSIVE AtoiDigits(_, _)
AtoiDigits(s, acc) ==
    IF s = <<>> \/ Head(s) \notin DigitChars THEN acc
    ELSE AtoiDigits(Tail(s), acc * 10 + DigitValue(Head(s)))

Atoi(s) ==
    IF s # <<>> /\ Head(s) = "-" THEN 0 - AtoiDigits(Tail(s), 0)
    ELSE IF s # <<>> /\ Head(s) = "+" THEN AtoiDigits(Tail(s), 0)
    ELSE AtoiDigits(s, 0)

VARIABLES
    pc,                 \* position in main()
    from,               \* the position main() left for cleanup or exit
    env,                \* what the process finds: /dev/tty, isatty(stdin), isatty(stderr)
    tty,                \* TRUE while the FILE *tty is non-NULL
    ttyCloses,          \* number of fclose(tty) calls made
    nargs,              \* options getopt_long has returned so far
    seen,               \* the options given so far: --non-interactive, -P, -p,
                        \* the colour flags and the --pipeline-max arguments
                        \* in the order given, the number of -i and -o
    log_level,          \* increments of log_level above NEO4J_LOG_WARN
    provider,           \* TRUE once the logger provider exists
    file_io_requests,   \* file_io_requests[1..nfile_io_requests]
    state,              \* shell_state_t
    config,             \* state.config, the connection configuration
    argc,               \* positional arguments left after the options
    result,             \* main()'s result variable
    i,                  \* index of the pipeline loop (0-based as in the code)
    stack,              \* streams being read by batch()/interact(), innermost last
    events,             \* what the run did to the outside world, in order
    modes,              \* the execution modes started, in order
    cleanups,           \* number of times the cleanup block ran
    exitStatus          \* process exit status, "none" while running

vars == <<pc, from, env, tty, ttyCloses, nargs, seen, log_level, provider,
          file_io_requests, state, config, argc, result, i, stack, events,
          modes, cleanups, exitStatus>>

nfile_io_requests == Len(file_io_requests)

Source(f) == [filename |-> f, is_input |-> TRUE]
Redirect(f) == [filename |-> f, is_input |-> FALSE]


\* An entry of the record of what the run did: kind, two names, a number.
Ev(kind, a, b, n) == [kind |-> kind, a |-> a, b |-> b, n |-> n]

\* shell_state_init(&state, prog_name, stdin, stdout, stderr, tty): output
\* goes to standard output, the nesting depth is 0, nothing is connected.
ShellStateInit ==
    [ interactive      |-> FALSE,
      password_prompt  |-> FALSE,
      error_colorize   |-> FALSE,
      source_max_depth |-> DEFAULT_SOURCE_MAX_DEPTH,
      source_depth     |-> 0,
      pipeline_max     |-> DEFAULT_PIPELINE_MAX,
      render           |-> "none",
      infile           |-> "none",
      out              |-> "stdout",
      connected        |-> FALSE,
      destroyed        |-> 0 ]

\* The connection configuration as neo4j_new_config leaves it: no password,
\* no callbacks, the library's own pipelining limit (written 0 here).
ConfigInit ==
    [ password               |-> FALSE,
      max_pipelined_requests |-> 0,
      unverified_host_callback |-> FALSE,
      authentication_reattempt_callback |-> FALSE,
      logger_provider        |-> FALSE ]

SeenInit ==
    [ nonInteractive |-> FALSE, forcePrompt |-> FALSE, password |-> FALSE,
      color |-> <<>>, pipelineMax |-> <<>>, fileOpts |-> 0 ]

Init ==
    /\ pc = "open_tty"
    /\ from = "none"
    /\ env \in [ttyDev : {"ok", "enoent", "error"},
                stdinTTY : BOOLEAN, stderrTTY : BOOLEAN]
    /\ tty = FALSE
    /\ ttyCloses = 0
    /\ nargs = 0
    /\ seen = SeenInit
    /\ log_level = 0
    /\ provider = FALSE
    /\ file_io_requests = <<>>
    /\ state = ShellStateInit
    /\ config = ConfigInit
    /\ argc = 0
    /\ result = EXIT_FAILURE
    /\ i = 0
    /\ stack = <<>>
    /\ events = <<>>
    /\ modes = <<>>
    /\ cleanups = 0
    /\ exitStatus = "none"

(***************************************************************************)
(* Lines 137-181: before the option loop.                                  *)
(***************************************************************************)
\* exit(EXIT_FAILURE) at lines 141 and 148: the process ends there, the
\* cleanup block is not run.
Exit(status) ==
    /\ pc' = "done"
    /\ from' = IF pc = "cleanup" THEN from ELSE pc
    /\ exitStatus' = status

\* goto cleanup
GotoCleanup == pc' = "cleanup" /\ from' = pc
Goto(label) == pc' = label /\ UNCHANGED from
Stay == UNCHANGED <<pc, from>>

\* FILE *tty = fopen(_PATH_TTY, "r+"); NULL with ENOENT is tolerated.
OpenTty ==
    /\ pc = "open_tty"
    /\ IF env.ttyDev = "error"
       THEN /\ Exit(EXIT_FAILURE)
            /\ UNCHANGED tty
       ELSE /\ tty' = (env.ttyDev = "ok")
            /\ Goto("basename")
            /\ UNCHANGED exitStatus
    /\ UNCHANGED <<env, ttyCloses, nargs, seen, log_level, provider,
                   file_io_requests, state, config, argc, result, i, stack,
                   events, modes, cleanups>>

\* neo4j_basename(argv[0], ...), then the initialisations of lines 151-165.
\* shell_state_init failing goes to cleanup.
Basename ==
    /\ pc = "basename"
    /\ \E ok \in BOOLEAN :
          IF ok THEN Goto("state_init") /\ UNCHANGED exitStatus
          ELSE Exit(EXIT_FAILURE)
    /\ UNCHANGED <<env, tty, ttyCloses, nargs, seen, log_level, provider,
                   file_io_requests, state, config, argc, result, i, stack,
                   events, modes, cleanups>>

StateInit ==
    /\ pc = "state_init"
    /\ \E ok \in BOOLEAN :
          IF ok
          THEN \* lines 167-181: isatty(STDIN_FILENO), the history file
               \* path, isatty(fileno(stderr))
               \E dotdir \in BOOLEAN :
                  /\ state' = [state EXCEPT
                                 !.interactive = env.stdinTTY,
                                 !.error_colorize =
                                     IF dotdir THEN env.stderrTTY ELSE @]
                  /\ IF dotdir THEN Goto("getopt") ELSE GotoCleanup
          ELSE /\ GotoCleanup
               /\ UNCHANGED state
    /\ UNCHANGED <<env, tty, ttyCloses, nargs, seen, log_level, provider,
                   file_io_requests, config, argc, result, i, stack,
                   events, modes, cleanups, exitStatus>>


(***************************************************************************)
(* Lines 183-326: the option loop.  Each action is one case of the switch, *)
(* taken when getopt_long returns that option.                             *)
(***************************************************************************)
\* The argument vectors explored: any MaxArgs options in any order, and the
\* long vectors made of -i FillerFile alone, which run up to the limit of
\* the request array and one past it.
FillerOnly ==
    /\ nargs = nfile_io_requests
    /\ \A k \in 1..nfile_io_requests : file_io_requests[k] = Source(FillerFile)

MayGiveOption == nargs < MaxArgs
MayGiveSource(f) == MayGiveOption \/ (FillerOnly /\ f = FillerFile)
MayGiveOutput(f) ==
    MayGiveOption \/ (FillerOnly /\ nfile_io_requests >= NEO4J_MAX_FILE_IO_ARGS)
MayEndArgs ==
    nargs <= MaxArgs \/ (FillerOnly /\ nfile_io_requests >= NEO4J_MAX_FILE_IO_ARGS)

Say(kind, a, b) == events' = Append(events, Ev(kind, a, b, 0))

\* Mutant: result is left as it was.
ResultOnInformation_Unset(current) == current

\* result = EXIT_SUCCESS of lines 190 and 320
ResultOnInformation(current) == EXIT_SUCCESS

\* Mutant: --help writes to the error stream.
UsageStreamOnHelp_Err == "err"

\* state.out of line 189 and state.err of lines 323 and 340
UsageStreamOnHelp == "out"
UsageStreamOnError == "err"

\* case 'h': usage(state.out, prog_name); result = EXIT_SUCCESS; goto cleanup
OptHelp ==
    /\ pc = "getopt" /\ MayGiveOption
    /\ nargs' = nargs + 1
    /\ Say("usage", UsageStreamOnHelp, "")
    /\ result' = ResultOnInformation(result)
    /\ GotoCleanup
    /\ UNCHANGED <<env, tty, ttyCloses, seen, log_level, provider,
                   file_io_requests, state, config, argc, i, stack, modes,
                   cleanups, exitStatus>>

\* case 'v': ++log_level (a uint8_t)
OptVerbose ==
    /\ pc = "getopt" /\ MayGiveOption
    /\ nargs' = nargs + 1
    /\ log_level' = (log_level + 1) % 256
    /\ UNCHANGED <<pc, from, env, tty, ttyCloses, seen, provider, file_io_requests,
                   state, config, argc, result, i, stack, events, modes,
                   cleanups, exitStatus>>

\* The options that only store a value the model does not follow further:
\* --history-file, --no-history, --insecure.
OptNoEffect ==
    /\ pc = "getopt" /\ MayGiveOption
    /\ nargs' = nargs + 1
    /\ UNCHANGED <<pc, from, env, tty, ttyCloses, seen, log_level, provider,
                   file_io_requests, state, config, argc, result, i, stack,
                   events, modes, cleanups, exitStatus>>

\* The options that hand a value to the connection configuration and go to
\* cleanup when that fails: --ca-file, --ca-directory, -u, --known-hosts,
\* --no-known-hosts.
OptConfigSetting ==
    /\ pc = "getopt" /\ MayGiveOption
    /\ nargs' = nargs + 1
    /\ \E failed \in BOOLEAN :
          IF failed
          THEN Say("error", "unexpected error", "") /\ GotoCleanup
          ELSE UNCHANGED events /\ Stay
    /\ UNCHANGED <<env, tty, ttyCloses, seen, log_level, provider,
                   file_io_requests, state, config, argc, result, i, stack,
                   modes, cleanups, exitStatus>>

\* Mutant: a colour flag leaves the decision as it was.
ColorizeAfterFlag_Ignored(current, on) == current

\* state.error_colorize = ansi_error_colorization of line 213 (on) and
\* = no_error_colorization of line 216 (off)
ColorizeAfterFlag(current, on) == on

\* case COLORIZE_OPT / NO_COLORIZE_OPT
OptColorize ==
    /\ pc = "getopt" /\ MayGiveOption
    /\ nargs' = nargs + 1
    /\ state' = [state EXCEPT !.error_colorize = ColorizeAfterFlag(@, TRUE)]
    /\ seen' = [seen EXCEPT !.color = Append(@, "on")]
    /\ UNCHANGED <<pc, from, env, tty, ttyCloses, log_level, provider,
                   file_io_requests, config, argc, result, i, stack, events,
                   modes, cleanups, exitStatus>>

OptNoColorize ==
    /\ pc = "getopt" /\ MayGiveOption
    /\ nargs' = nargs + 1
    /\ state' = [state EXCEPT !.error_colorize = ColorizeAfterFlag(@, FALSE)]
    /\ seen' = [seen EXCEPT !.color = Append(@, "off")]
    /\ UNCHANGED <<pc, from, env, tty, ttyCloses, log_level, provider,
                   file_io_requests, config, argc, result, i, stack, events,
                   modes, cleanups, exitStatus>>

\* Mutant: the handle is closed but still used.
TtyAfterNonInteractive_KeptOpen(handle) == handle

\* tty = NULL of line 226
TtyAfterNonInteractive(handle) == FALSE

\* case NON_INTERACTIVE_OPT: state.interactive = false; the tty is closed
\* and set to NULL if it was open.
OptNonInteractive ==
    /\ pc = "getopt" /\ MayGiveOption
    /\ nargs' = nargs + 1
    /\ state' = [state EXCEPT !.interactive = FALSE]
    /\ seen' = [seen EXCEPT !.nonInteractive = TRUE]
    /\ IF tty THEN /\ ttyCloses' = ttyCloses + 1
                   /\ tty' = TtyAfterNonInteractive(tty)
       ELSE UNCHANGED <<ttyCloses, tty>>
    /\ UNCHANGED <<pc, from, env, log_level, provider, file_io_requests, config,
                   argc, result, i, stack, events, modes, cleanups,
                   exitStatus>>

\* case 'p': neo4j_config_set_password(state.config, optarg)
OptPassword ==
    /\ pc = "getopt" /\ MayGiveOption
    /\ nargs' = nargs + 1
    /\ seen' = [seen EXCEPT !.password = TRUE]
    /\ \E failed \in BOOLEAN :
          IF failed
          THEN /\ Say("error", "unexpected error", "")
               /\ GotoCleanup
               /\ UNCHANGED config
          ELSE /\ config' = [config EXCEPT !.password = TRUE]
               /\ UNCHANGED events /\ Stay
    /\ UNCHANGED <<env, tty, ttyCloses, log_level, provider,
                   file_io_requests, state, argc, result, i, stack, modes,
                   cleanups, exitStatus>>

\* Mutant: -P is accepted without a terminal handle.
CannotPrompt_Never(handle) == FALSE

\* if (tty == NULL) of line 244
CannotPrompt(handle) == ~handle

\* Mutant: -P leaves state.password_prompt alone.
PasswordPromptForced_Unchanged(prompt) == prompt

\* state.password_prompt = true of line 250
PasswordPromptForced(prompt) == TRUE

\* case 'P'
OptPromptPassword ==
    /\ pc = "getopt" /\ MayGiveOption
    /\ nargs' = nargs + 1
    /\ seen' = [seen EXCEPT !.forcePrompt = TRUE]
    /\ IF CannotPrompt(tty)
       THEN /\ Say("error", "Cannot prompt for a password without a tty", "")
            /\ GotoCleanup
            /\ UNCHANGED state
       ELSE /\ state' = [state EXCEPT
                           !.password_prompt = PasswordPromptForced(@)]
            /\ UNCHANGED events /\ Stay
    /\ UNCHANGED <<env, tty, ttyCloses, log_level, provider,
                   file_io_requests, config, argc, result, i, stack, modes,
                   cleanups, exitStatus>>

\* Mutant: zero is let through.
InvalidNumber_Negative(arg) == arg < 0

\* if (arg < 1) of lines 272 and 295
InvalidNumber(arg) == arg < 1

\* arg * 2 of line 278
MaxPipelinedRequests(arg) == arg * 2

\* case PIPELINE_MAX_OPT
OptPipelineMax ==
    /\ pc = "getopt" /\ MayGiveOption
    /\ nargs' = nargs + 1
    /\ \E optarg \in NumOptArgs :
          LET arg == Atoi(optarg) IN
          /\ seen' = [seen EXCEPT !.pipelineMax = Append(@, optarg)]
          /\ IF InvalidNumber(arg)
             THEN /\ Say("error", "Invalid pipeline-max", "")
                  /\ GotoCleanup
                  /\ UNCHANGED <<state, config>>
             ELSE /\ state' = [state EXCEPT !.pipeline_max = arg]
                  /\ config' = [config EXCEPT
                        !.max_pipelined_requests = MaxPipelinedRequests(arg)]
                  /\ UNCHANGED events /\ Stay
    /\ UNCHANGED <<env, tty, ttyCloses, log_level, provider,
                   file_io_requests, argc, result, i, stack, modes, cleanups,
                   exitStatus>>

\* case SOURCE_MAX_DEPTH_OPT
OptSourceMaxDepth ==
    /\ pc = "getopt" /\ MayGiveOption
    /\ nargs' = nargs + 1
    /\ \E optarg \in NumOptArgs :
          LET arg == Atoi(optarg) IN
          IF InvalidNumber(arg)
          THEN /\ Say("error", "Invalid source-max-depth", "")
               /\ GotoCleanup
               /\ UNCHANGED state
          ELSE /\ state' = [state EXCEPT !.source_max_depth = arg]
               /\ UNCHANGED events /\ Stay
    /\ UNCHANGED <<env, tty, ttyCloses, seen, log_level, provider,
                   file_io_requests, config, argc, result, i, stack, modes,
                   cleanups, exitStatus>>

\* Mutant: the bound is tested one entry too late.
TooManyFileIoArgs_OffByOne(n) == n > NEO4J_MAX_FILE_IO_ARGS

\* if (nfile_io_requests >= NEO4J_MAX_FILE_IO_ARGS) of lines 283 and 305
TooManyFileIoArgs(n) == n >= NEO4J_MAX_FILE_IO_ARGS

\* Mutant: -i leaves state.interactive alone.
InteractiveAfterSource_Unchanged(interactive) == interactive

\* state.interactive after case 'i' (line 282) and after case 'o' (which
\* leaves it alone)
InteractiveAfterSource(interactive) == FALSE
InteractiveAfterOutput(interactive) == interactive

\* case 'i'
OptSource ==
    /\ pc = "getopt"
    /\ \E f \in SourceFiles :
          /\ MayGiveSource(f)
          /\ nargs' = nargs + 1
          /\ seen' = [seen EXCEPT !.fileOpts = @ + 1]
          /\ state' = [state EXCEPT
                         !.interactive = InteractiveAfterSource(@)]
          /\ IF TooManyFileIoArgs(nfile_io_requests)
             THEN /\ Say("error", "Too many --source and/or --output args", "")
                  /\ GotoCleanup
                  /\ UNCHANGED file_io_requests
             ELSE /\ file_io_requests' = Append(file_io_requests, Source(f))
                  /\ UNCHANGED events /\ Stay
    /\ UNCHANGED <<env, tty, ttyCloses, log_level, provider, config,
                   argc, result, i, stack, modes, cleanups, exitStatus>>

\* case 'o'
OptOutput ==
    /\ pc = "getopt"
    /\ \E f \in OutputFiles :
          /\ MayGiveOutput(f)
          /\ nargs' = nargs + 1
          /\ seen' = [seen EXCEPT !.fileOpts = @ + 1]
          /\ state' = [state EXCEPT
                         !.interactive = InteractiveAfterOutput(@)]
          /\ IF TooManyFileIoArgs(nfile_io_requests)
             THEN /\ Say("error", "Too many --source and/or --output args", "")
                  /\ GotoCleanup
                  /\ UNCHANGED file_io_requests
             ELSE /\ file_io_requests' = Append(file_io_requests, Redirect(f))
                  /\ UNCHANGED events /\ Stay
    /\ UNCHANGED <<env, tty, ttyCloses, log_level, provider, config,
                   argc, result, i, stack, modes, cleanups, exitStatus>>

\* case VERSION_OPT
OptVersion ==
    /\ pc = "getopt" /\ MayGiveOption
    /\ nargs' = nargs + 1
    /\ Say("version", "out", "")
    /\ result' = ResultOnInformation(result)
    /\ GotoCleanup
    /\ UNCHANGED <<env, tty, ttyCloses, seen, log_level, provider,
                   file_io_requests, state, config, argc, i, stack, modes,
                   cleanups, exitStatus>>

\* default: usage(state.err, prog_name); goto cleanup
OptUnknown ==
    /\ pc = "getopt" /\ MayGiveOption
    /\ nargs' = nargs + 1
    /\ Say("usage", UsageStreamOnError, "")
    /\ GotoCleanup
    /\ UNCHANGED <<env, tty, ttyCloses, seen, log_level, provider,
                   file_io_requests, state, config, argc, result, i, stack,
                   modes, cleanups, exitStatus>>


(***************************************************************************)
(* Lines 328-384: after the option loop.                                   *)
(***************************************************************************)
\* Mutant: the check of lines 328-333 is missing.
DanglingRedirect_Unchecked(reqs) == FALSE

\* nfile_io_requests > 0 && !file_io_requests[nfile_io_requests-1].is_input
DanglingRedirect(reqs) == Len(reqs) > 0 /\ ~reqs[Len(reqs)].is_input

\* getopt_long returns -1.  Lines 328-342: the queue must not end in an
\* output request, and at most one positional argument may remain.
EndOfArgs ==
    /\ pc = "getopt" /\ MayEndArgs
    /\ IF DanglingRedirect(file_io_requests)
       THEN /\ Say("error", "--output/-o must be followed by --source/-i", "")
            /\ GotoCleanup
            /\ UNCHANGED argc
       ELSE \E positional \in 0..2 :
               /\ argc' = positional
               /\ IF positional > 1
                  THEN Say("usage", UsageStreamOnError, "") /\ GotoCleanup
                  ELSE UNCHANGED events /\ Goto("configure")
    /\ UNCHANGED <<env, tty, ttyCloses, nargs, seen, log_level, provider,
                   file_io_requests, state, config, result, i, stack, modes,
                   cleanups, exitStatus>>

\* if (state.interactive) state.password_prompt = true, lines 358-361
PasswordPromptDefault(interactive, prompt) == interactive \/ prompt

\* if (tty != NULL) of line 363: the unverified-host callback is set
RegisterHostCallback(handle) == handle

\* Mutant: the callback is set without looking at the terminal handle.
RegisterAuthCallback_NoTtyTest(handle, prompt) == prompt

\* if (tty != NULL) { ... if (state.password_prompt) of lines 363-372: the
\* authentication-reattempt callback is set
RegisterAuthCallback(handle, prompt) == handle /\ prompt

\* Lines 344-373: the logger provider, then password_prompt and the two
\* callbacks.
Configure ==
    /\ pc = "configure"
    /\ \E created \in BOOLEAN :
          IF ~created
          THEN /\ Say("error", "unexpected error", "")
               /\ GotoCleanup
               /\ UNCHANGED <<provider, state, config>>
          ELSE LET prompt ==
                       PasswordPromptDefault(state.interactive,
                                             state.password_prompt) IN
               /\ provider' = TRUE
               /\ state' = [state EXCEPT !.password_prompt = prompt]
               /\ config' = [config EXCEPT
                    !.logger_provider = TRUE,
                    !.unverified_host_callback = RegisterHostCallback(tty),
                    !.authentication_reattempt_callback =
                        RegisterAuthCallback(tty, prompt)]
               /\ Goto("connect")
               /\ UNCHANGED events
    /\ UNCHANGED <<env, tty, ttyCloses, nargs, seen, log_level,
                   file_io_requests, argc, result, i, stack, modes, cleanups,
                   exitStatus>>

\* Mutant: db_connect is called whether or not an endpoint was given.
ConnectWanted_Always(n) == n >= 0

\* argc >= 1 of line 375: db_connect is called only with an endpoint.
ConnectWanted(n) == n >= 1

\* Mutant: the password stays in the configuration.
PasswordAfterConnect_Kept(password) == password

\* neo4j_config_set_password(state.config, NULL) of line 381
PasswordAfterConnect(password) == FALSE

\* Lines 375-384: db_connect(&state, argv[0]) if an endpoint was given
\* (it reports its own failure), then the password is removed from the
\* configuration.
Connect ==
    /\ pc = "connect"
    /\ IF ConnectWanted(argc)
       THEN \E failed \in BOOLEAN :
               /\ events' = Append(events,
                      Ev("connect", IF failed THEN "failed" ELSE "ok", "", 0))
               /\ IF failed
                  THEN GotoCleanup /\ UNCHANGED <<state, config>>
                  ELSE /\ state' = [state EXCEPT !.connected = TRUE]
                       /\ config' = [config EXCEPT
                                       !.password = PasswordAfterConnect(@)]
                       /\ Goto("select")
       ELSE /\ config' = [config EXCEPT !.password = PasswordAfterConnect(@)]
            /\ Goto("select")
            /\ UNCHANGED <<state, events>>
    /\ UNCHANGED <<env, tty, ttyCloses, nargs, seen, log_level, provider,
                   file_io_requests, argc, result, i, stack, modes, cleanups,
                   exitStatus>>


(***************************************************************************)
(* Lines 386-427: the execution mode.                                      *)
(***************************************************************************)
\* The if / else if / else of lines 386, 397 and 416.
SelectMode(interactive, nrequests) ==
    IF interactive THEN "Interactive"
    ELSE IF nrequests > 0 THEN "FileIoPipeline"
    ELSE "StdinBatch"

\* Mutant: the assignments of lines 391 and 420 are missing.
ModeSourceDepth_Unset(mode, depth) == depth

\* state.source_depth = 1 of lines 391 and 420; the pipeline branch leaves
\* the depth as shell_state_init set it.
ModeSourceDepth(mode, depth) ==
    IF mode \in {"Interactive", "StdinBatch"} THEN 1 ELSE depth

ModeRender(mode) ==
    IF mode = "Interactive" THEN "table" ELSE "csv"

ModeInfile(mode, infile) ==
    CASE mode = "Interactive" -> "<interactive>"
      [] mode = "StdinBatch" -> "<stdin>"
      [] OTHER -> infile

Frame(name, script) == [name |-> name, script |-> script, pos |-> 1]

\* The branch taken at line 386, up to the call of interact(), source() or
\* batch().
StartMode ==
    /\ pc = "select"
    /\ LET mode == SelectMode(state.interactive, nfile_io_requests) IN
       /\ modes' = Append(modes, mode)
       /\ state' = [state EXCEPT
                      !.render = ModeRender(mode),
                      !.infile = ModeInfile(mode, @),
                      !.source_depth = ModeSourceDepth(mode, @)]
       /\ IF mode = "FileIoPipeline"
          THEN /\ i' = 0
               /\ UNCHANGED stack
          ELSE /\ stack' = <<Frame(ModeInfile(mode, ""), StdinScript)>>
               /\ UNCHANGED i
       /\ Goto("run")
    /\ UNCHANGED <<env, tty, ttyCloses, nargs, seen, log_level, provider,
                   file_io_requests, config, argc, result, events, cleanups,
                   exitStatus>>

RunningMode == modes[Len(modes)]

(***************************************************************************)
(* source(), redirect_output(), batch() and interact(): other files of     *)
(* the repository, modelled from the specification.                        *)
(***************************************************************************)
\* The guard of source(): entering would exceed source-max-depth.
DepthExceeded(depth, max) == depth + 1 > max

\* redirect_output(): the named file, once opened, is the output of all
\* that follows.
RedirectOutput(st, filename) == [st EXCEPT !.out = filename]

\* source(), past its guard and with the file opened: the depth is
\* incremented and the file is the input while batch() reads it.
SourceEnter(st, filename) ==
    [st EXCEPT !.source_depth = @ + 1, !.infile = filename]

\* source() returning: the depth and the input are as before the call.
SourceLeave(st, previous) ==
    [st EXCEPT !.source_depth = @ - 1, !.infile = previous]

(***************************************************************************)
(* Lines 397-415: the loop over file_io_requests.                          *)
(***************************************************************************)
\* Mutant: the test of line 403 is inverted.
PipelineEntryIsOutput_Inverted(request) == request.is_input

\* !file_io_requests[i].is_input of line 403
PipelineEntryIsOutput(request) == ~request.is_input

\* Mutant: the return value is ignored and the loop goes on.
AfterFailedEntry_Ignored(n) == [pc |-> "run", i |-> n + 1]

\* goto cleanup of lines 407 and 412, when redirect_output() or source()
\* returned non-zero for the entry at index n: where main() goes on.
AfterFailedEntry(n) == [pc |-> "cleanup", i |-> n]

FailEntry ==
    LET next == AfterFailedEntry(i) IN
    /\ pc' = next.pc
    /\ from' = IF next.pc = "cleanup" THEN pc ELSE from
    /\ i' = next.i

\* The entry at i is an output request: redirect_output(&state, filename).
PipelineRedirect ==
    /\ pc = "run" /\ RunningMode = "FileIoPipeline" /\ stack = <<>>
    /\ i < nfile_io_requests
    /\ PipelineEntryIsOutput(file_io_requests[i + 1])
    /\ LET filename == file_io_requests[i + 1].filename IN
       \E opened \in BOOLEAN :
          IF opened
          THEN /\ events' = Append(events, Ev("open_output", filename, "", i))
               /\ state' = RedirectOutput(state, filename)
               /\ i' = i + 1
               /\ Stay
          ELSE /\ events' = Append(events, Ev("open_failed", filename, "", i))
               /\ FailEntry
               /\ UNCHANGED state
    /\ UNCHANGED <<env, tty, ttyCloses, nargs, seen, log_level, provider,
                   file_io_requests, config, argc, result, stack, modes,
                   cleanups, exitStatus>>

\* The entry at i is a source request: source(&state, filename), up to the
\* point where the file is being read.
PipelineSource ==
    /\ pc = "run" /\ RunningMode = "FileIoPipeline" /\ stack = <<>>
    /\ i < nfile_io_requests
    /\ ~PipelineEntryIsOutput(file_io_requests[i + 1])
    /\ LET filename == file_io_requests[i + 1].filename IN
       IF DepthExceeded(state.source_depth, state.source_max_depth)
       THEN /\ events' = Append(events,
                   Ev("depth_exceeded", filename, "", state.source_depth + 1))
            /\ FailEntry
            /\ UNCHANGED <<state, stack>>
       ELSE \E opened \in BOOLEAN :
               IF opened
               THEN /\ events' = Append(events,
                           Ev("open_source", filename, "", i))
                    /\ state' = SourceEnter(state, filename)
                    /\ stack' = <<Frame(filename, FileScript(filename))>>
                    /\ UNCHANGED i
                    /\ Stay
               ELSE /\ events' = Append(events,
                           Ev("open_failed", filename, "", i))
                    /\ FailEntry
                    /\ UNCHANGED <<state, stack>>
    /\ UNCHANGED <<env, tty, ttyCloses, nargs, seen, log_level, provider,
                   file_io_requests, config, argc, result, modes,
                   cleanups, exitStatus>>

\* The for loop of line 400 ends; line 427.
PipelineDone ==
    /\ pc = "run" /\ RunningMode = "FileIoPipeline" /\ stack = <<>>
    /\ i >= nfile_io_requests
    /\ result' = EXIT_SUCCESS
    /\ GotoCleanup
    /\ UNCHANGED <<env, tty, ttyCloses, nargs, seen, log_level, provider,
                   file_io_requests, state, config, argc, i, stack, events,
                   modes, cleanups, exitStatus>>

Top == stack[Len(stack)]
AtDirective == Top.pos <= Len(Top.script)
Directive == Top.script[Top.pos]
Advance(stk) == [stk EXCEPT ![Len(stk)].pos = @ + 1]

\* A statement of the stream being read is evaluated and its result is
\* rendered to the current output.
EvalStatement ==
    /\ pc = "run" /\ stack # <<>> /\ AtDirective
    /\ Directive.kind = "stmt"
    /\ events' = Append(events,
           Ev("render", Top.name, state.out, state.source_depth))
    /\ stack' = Advance(stack)
    /\ UNCHANGED <<pc, from, env, tty, ttyCloses, nargs, seen, log_level, provider,
                   file_io_requests, state, config, argc, result, i, modes,
                   cleanups, exitStatus>>

\* A :source directive of the stream being read: source() is called for the
\* named file.  Its failure is reported and the enclosing stream goes on.
EvalSource ==
    /\ pc = "run" /\ stack # <<>> /\ AtDirective
    /\ Directive.kind = "source"
    /\ LET filename == Directive.arg IN
       IF DepthExceeded(state.source_depth, state.source_max_depth)
       THEN /\ events' = Append(events,
                   Ev("depth_exceeded", filename, Top.name,
                      state.source_depth + 1))
            /\ stack' = Advance(stack)
            /\ UNCHANGED state
       ELSE \E opened \in BOOLEAN :
               IF opened
               THEN /\ events' = Append(events,
                           Ev("include", filename, Top.name,
                              state.source_depth + 1))
                    /\ state' = SourceEnter(state, filename)
                    /\ stack' = Append(Advance(stack),
                                       Frame(filename, FileScript(filename)))
               ELSE /\ events' = Append(events,
                           Ev("include_failed", filename, Top.name,
                              state.source_depth + 1))
                    /\ stack' = Advance(stack)
                    /\ UNCHANGED state
    /\ UNCHANGED <<pc, from, env, tty, ttyCloses, nargs, seen, log_level, provider,
                   file_io_requests, config, argc, result, i, modes,
                   cleanups, exitStatus>>

\* The stream being read ends.  A sourced file: source() restores the depth
\* and the input and returns 0; for a queue entry the loop goes to the next
\* entry.  The top-level stream of batch() or interact(): the mode returns
\* 0 and line 427 is reached.
EndOfStream ==
    /\ pc = "run" /\ stack # <<>> /\ ~AtDirective
    /\ stack' = SubSeq(stack, 1, Len(stack) - 1)
    /\ IF RunningMode = "FileIoPipeline" \/ Len(stack) > 1
       THEN /\ state' = SourceLeave(state,
                              IF Len(stack) > 1
                              THEN stack[Len(stack) - 1].name
                              ELSE ShellStateInit.infile)
            /\ i' = IF Len(stack) = 1 THEN i + 1 ELSE i
            /\ UNCHANGED result /\ Stay
       ELSE /\ result' = EXIT_SUCCESS
            /\ GotoCleanup
            /\ UNCHANGED <<state, i>>
    /\ UNCHANGED <<env, tty, ttyCloses, nargs, seen, log_level, provider,
                   file_io_requests, config, argc, events, modes, cleanups,
                   exitStatus>>

\* batch() or interact() fails on the stream main() handed it (a read
\* error): the mode returns non-zero and main() goes to cleanup.  In the
\* pipeline source() first restores the depth.
StreamFailure ==
    /\ pc = "run" /\ Len(stack) = 1
    /\ events' = Append(events, Ev("read_failed", Top.name, "", i))
    /\ stack' = <<>>
    /\ IF RunningMode = "FileIoPipeline"
       THEN /\ state' = SourceLeave(state, ShellStateInit.infile)
            /\ FailEntry
       ELSE /\ GotoCleanup
            /\ UNCHANGED <<state, i>>
    /\ UNCHANGED <<env, tty, ttyCloses, nargs, seen, log_level, provider,
                   file_io_requests, config, argc, result, modes,
                   cleanups, exitStatus>>

(***************************************************************************)
(* Lines 429-444: cleanup.                                                 *)
(***************************************************************************)
\* Mutant: fclose(tty) without the test.
CleanupClosesTty_Always(handle) == TRUE

\* if (tty != NULL) fclose(tty)
CleanupClosesTty(handle) == handle

Cleanup ==
    /\ pc = "cleanup"
    /\ cleanups' = cleanups + 1
    /\ state' = [state EXCEPT !.destroyed = @ + 1, !.connected = FALSE]
    /\ events' = events
         \o (IF provider THEN <<Ev("logger_free", "", "", 0)>> ELSE <<>>)
         \o <<Ev("free_requests", "", "", nfile_io_requests)>>
    /\ IF CleanupClosesTty(tty)
       THEN ttyCloses' = ttyCloses + 1
       ELSE UNCHANGED ttyCloses
    /\ Exit(result)
    /\ UNCHANGED <<env, tty, nargs, seen, log_level, provider,
                   file_io_requests, config, argc, result, i, stack, modes>>

Next ==
    \/ OpenTty \/ Basename \/ StateInit
    \/ OptHelp \/ OptVerbose \/ OptNoEffect \/ OptConfigSetting
    \/ OptColorize \/ OptNoColorize \/ OptNonInteractive
    \/ OptPassword \/ OptPromptPassword \/ OptPipelineMax
    \/ OptSource \/ OptSourceMaxDepth \/ OptOutput
    \/ OptVersion \/ OptUnknown
    \/ EndOfArgs \/ Configure \/ Connect \/ StartMode
    \/ PipelineRedirect \/ PipelineSource \/ PipelineDone
    \/ EvalStatement \/ EvalSource \/ EndOfStream \/ StreamFailure
    \/ Cleanup

Spec == Init /\ [][Next]_vars


(***************************************************************************)
(* Vocabulary of the properties.                                           *)
(***************************************************************************)
Done == pc = "done"
Modes == {"Interactive", "FileIoPipeline", "StdinBatch"}

HasEvent(kind) == \E k \in DOMAIN events : events[k].kind = kind
HasError(msg) ==
    \E k \in DOMAIN events : events[k].kind = "error" /\ events[k].a = msg
LastEvent == events[Len(events)]

\* Kinds of events in which a source or an output file is opened, or an
\* attempt to open one is made.
OpenKinds ==
    {"open_output", "open_source", "open_failed", "include", "include_failed"}
NoFileTouched == \A k \in DOMAIN events : events[k].kind \notin OpenKinds
ConnectAttempts ==
    Cardinality({k \in DOMAIN events : events[k].kind = "connect"})
ConnectFailed ==
    \E k \in DOMAIN events :
       events[k].kind = "connect" /\ events[k].a = "failed"

QueueEndsInRedirect ==
    /\ file_io_requests # <<>>
    /\ ~file_io_requests[Len(file_io_requests)].is_input
EveryRedirectHasLaterSource ==
    \A k \in DOMAIN file_io_requests :
       ~file_io_requests[k].is_input =>
          \E j \in DOMAIN file_io_requests :
             j > k /\ file_io_requests[j].is_input

\* The step in which getopt_long returns -1: no option is consumed and the
\* option loop is left.
OptionsExhausted == pc = "getopt" /\ pc' # "getopt" /\ nargs' = nargs

(***************************************************************************)
(* C1.  When a mode is started: it is Interactive exactly if stdin is a    *)
(* terminal, the -i/-o queue is empty and --non-interactive was not given; *)
(* otherwise it is FileIoPipeline exactly if the queue is non-empty;       *)
(* otherwise StdinBatch.  So -i rules out Interactive whatever stdin is,   *)
(* and a terminal with --non-interactive and no -i/-o gives StdinBatch.    *)
(***************************************************************************)
C1_ModeSelection ==
    modes # <<>> =>
       LET mode == modes[1]
           wantInteractive ==
               /\ env.stdinTTY
               /\ file_io_requests = <<>>
               /\ ~seen.nonInteractive
       IN /\ mode \in Modes
          /\ (mode = "Interactive") <=> wantInteractive
          /\ ~wantInteractive =>
                ((mode = "FileIoPipeline") <=> (file_io_requests # <<>>))
          /\ (\E k \in DOMAIN file_io_requests : file_io_requests[k].is_input)
                => mode # "Interactive"
          /\ (env.stdinTTY /\ seen.nonInteractive /\ file_io_requests = <<>>)
                => mode = "StdinBatch"

\* stdin is a terminal and -i was given: the pipeline runs.
C1_Witness ==
    /\ modes = <<"FileIoPipeline">>
    /\ env.stdinTTY
    /\ ~seen.nonInteractive
    /\ Done

(***************************************************************************)
(* C2.  When the options are exhausted and the -i/-o queue ends in an      *)
(* output request, main() goes to cleanup with a failure result; a run     *)
(* whose queue ends in an output request has opened no source or output    *)
(* file, attempted no connection and started no mode; and in every queue   *)
(* that gets past the check each output request has a later source         *)
(* request.                                                                *)
(***************************************************************************)
C2_DanglingRedirectRejected ==
    /\ [](QueueEndsInRedirect =>
             /\ NoFileTouched
             /\ ConnectAttempts = 0
             /\ modes = <<>>
             /\ pc \in {"getopt", "cleanup", "done"})
    /\ []((pc \in {"configure", "connect", "select", "run"} \/ modes # <<>>)
             => EveryRedirectHasLaterSource)
    /\ []((Done /\ HasError("--output/-o must be followed by --source/-i"))
             => exitStatus = EXIT_FAILURE)
    /\ [][(OptionsExhausted /\ QueueEndsInRedirect) =>
             /\ pc' = "cleanup"
             /\ result' = EXIT_FAILURE
             /\ events' = Append(events,
                   Ev("error", "--output/-o must be followed by --source/-i",
                      "", 0))]_vars

\* -o alone (or after sources) with nothing else wrong: rejected.
C2_Witness ==
    /\ Done
    /\ QueueEndsInRedirect
    /\ HasError("--output/-o must be followed by --source/-i")
    /\ exitStatus = EXIT_FAILURE


(***************************************************************************)
(* C3.  In the pipeline the queue entries are taken in insertion order and *)
(* there is one current output, at first standard output: every open of a  *)
(* queue entry is the open of the next entry, of its kind and of its file, *)
(* and every result is rendered to the file of the last output request     *)
(* taken so far, or to standard output if there was none.                  *)
(***************************************************************************)
RECURSIVE FollowsQueue(_, _, _)
FollowsQueue(k, entry, target) ==
    IF k > Len(events) THEN TRUE
    ELSE LET e == events[k] IN
         CASE e.kind = "open_output" ->
                 /\ e.n = entry - 1
                 /\ entry <= Len(file_io_requests)
                 /\ file_io_requests[entry] = Redirect(e.a)
                 /\ FollowsQueue(k + 1, entry + 1, e.a)
           [] e.kind = "open_source" ->
                 /\ e.n = entry - 1
                 /\ entry <= Len(file_io_requests)
                 /\ file_io_requests[entry] = Source(e.a)
                 /\ FollowsQueue(k + 1, entry + 1, target)
           [] e.kind = "render" ->
                 /\ e.b = target
                 /\ FollowsQueue(k + 1, entry, target)
           [] OTHER -> FollowsQueue(k + 1, entry, target)

C3_PipelineOrderAndOutput ==
    modes = <<"FileIoPipeline">> => FollowsQueue(1, 1, "stdout")

\* [Source(s1), Redirect(o1), Source(s2)]: s1 to stdout, s2 to o1.
C3_Witness ==
    /\ Done
    /\ exitStatus = EXIT_SUCCESS
    /\ file_io_requests = <<Source("s1"), Redirect("o1"), Source("s2")>>
    /\ \E k \in DOMAIN events :
          events[k].kind = "render" /\ events[k].a = "s1"
             /\ events[k].b = "stdout"
    /\ \E k \in DOMAIN events :
          events[k].kind = "render" /\ events[k].a = "s2"
             /\ events[k].b = "o1"
    /\ \A k \in DOMAIN events :
          (events[k].kind = "render" /\ events[k].a = "s2")
             => events[k].b = "o1"

(***************************************************************************)
(* C4.  When the open of the queue entry at position k fails, nothing of   *)
(* a later entry is opened or evaluated: main() is in cleanup or has       *)
(* exited, all that follows in the record is cleanup, the result is        *)
(* failure, cleanup has run once at exit, and the k entries before were    *)
(* each opened and have been read to their end.                            *)
(***************************************************************************)
CleanupKinds == {"logger_free", "free_requests"}
QueueOpens(upto) ==
    {j \in 1..upto : events[j].kind \in {"open_output", "open_source"}}

C4_OpenFailureAborts ==
    \A k \in DOMAIN events :
       events[k].kind = "open_failed" =>
          /\ pc \in {"cleanup", "done"}
          /\ from = "run"
          /\ result = EXIT_FAILURE
          /\ \A j \in DOMAIN events : j > k => events[j].kind \in CleanupKinds
          /\ i = events[k].n
          /\ stack = <<>>
          /\ state.source_depth = 0
          /\ Cardinality(QueueOpens(k)) = events[k].n
          /\ Done => (cleanups = 1 /\ exitStatus = EXIT_FAILURE)

\* Of three entries the one at position 1 fails to open.
C4_Witness ==
    /\ Done
    /\ nfile_io_requests = 3
    /\ \E k \in DOMAIN events :
          events[k].kind = "open_failed" /\ events[k].n = 1
    /\ exitStatus = EXIT_FAILURE


(***************************************************************************)
(* Nesting of sourced files.                                               *)
(***************************************************************************)
\* The files being read, one inside the other: the streams on the stack
\* without the top-level stream of StdinBatch and Interactive, which is
\* not a file inclusion.
FileFrames ==
    Len(stack) - (IF modes # <<>> /\ modes[1] \in {"Interactive", "StdinBatch"}
                  THEN 1 ELSE 0)

\* The step in which source() refuses a file because of the depth limit,
\* and the step in which it enters one.
Refused ==
    /\ Len(events') = Len(events) + 1
    /\ events'[Len(events')].kind = "depth_exceeded"
Entered ==
    /\ Len(events') = Len(events) + 1
    /\ events'[Len(events')].kind \in {"open_source", "include"}

(***************************************************************************)
(* C5 as claimed.  With source-max-depth d, in every mode, an inclusion is *)
(* refused for its depth only as the (d+1)-th of a chain: d files are      *)
(* being read, one inside the other, when it is refused.                   *)
(***************************************************************************)
C5_AsClaimed ==
    [][Refused => FileFrames = state.source_max_depth]_vars

(***************************************************************************)
(* C5 amended.  In FileIoPipeline mode an inclusion is refused for its     *)
(* depth exactly as the (d+1)-th of a chain (d files are being read); in   *)
(* StdinBatch and Interactive modes, whose top-level stream counts as      *)
(* level 1, exactly as the d-th (d-1 files are being read).  In every mode *)
(* the refused inclusion would have been level d+1 of the depth counter,   *)
(* and no file is entered beyond level d.                                  *)
(***************************************************************************)
TopLevelCount ==
    IF modes # <<>> /\ modes[1] \in {"Interactive", "StdinBatch"} THEN 1 ELSE 0

C5_DepthLimitPerMode ==
    /\ [][Refused =>
            /\ FileFrames = state.source_max_depth - TopLevelCount
            /\ events'[Len(events')].n = state.source_max_depth + 1]_vars
    /\ [][Entered =>
            /\ FileFrames' <= state.source_max_depth - TopLevelCount
            /\ FileFrames' = FileFrames + 1]_vars
    /\ [](state.source_max_depth >= 1)

\* The pipeline with d files open, one inside the other, and the next
\* inclusion just refused.
C5_Witness ==
    /\ modes = <<"FileIoPipeline">>
    /\ pc = "run"
    /\ Len(stack) = state.source_max_depth
    /\ state.source_max_depth = MaxNum
    /\ events # <<>>
    /\ LastEvent.kind = "depth_exceeded"
    /\ LastEvent.n = state.source_max_depth + 1
    /\ Top.pos = 3

(***************************************************************************)
(* C6 as claimed.  In StdinBatch and Interactive modes a :source given in  *)
(* the top-level stream is never refused for its depth, whatever the       *)
(* accepted source-max-depth.                                              *)
(***************************************************************************)
InTopLevelStream ==
    /\ modes # <<>>
    /\ modes[1] \in {"Interactive", "StdinBatch"}
    /\ pc = "run"
    /\ Len(stack) = 1

C6_AsClaimed == [][InTopLevelStream => ~Refused]_vars

(***************************************************************************)
(* C6 amended.  StdinBatch and Interactive modes start with nesting depth  *)
(* 1 and the depth is the number of streams being read; with that baseline *)
(* a :source given in the top-level stream is entered only if              *)
(* source-max-depth is at least 2, and with source-max-depth 1 it is       *)
(* refused.                                                                *)
(***************************************************************************)
C6_BaselineDepth ==
    /\ []((modes # <<>> /\ modes[1] \in {"Interactive", "StdinBatch"}
              /\ pc = "run")
             => state.source_depth = Len(stack))
    /\ [][(modes = <<>> /\ modes' # <<>>
              /\ modes'[1] \in {"Interactive", "StdinBatch"})
             => state'.source_depth = 1]_vars
    /\ [][(InTopLevelStream /\ Refused) => state.source_max_depth = 1]_vars
    /\ [][(InTopLevelStream /\ Entered) => state.source_max_depth >= 2]_vars
    /\ [][(InTopLevelStream /\ AtDirective /\ Directive.kind = "source"
              /\ state.source_max_depth = 1 /\ pc' = "run")
             => Refused]_vars

\* The prompt, --source-max-depth 1, and the :source typed there refused.
C6_Witness ==
    /\ modes = <<"Interactive">>
    /\ pc = "run"
    /\ Len(stack) = 1
    /\ state.source_max_depth = 1
    /\ state.source_depth = 1
    /\ events # <<>>
    /\ LastEvent.kind = "depth_exceeded"


(***************************************************************************)
(* How a finished run ended, read from where main() left for cleanup.      *)
(***************************************************************************)
\* The options were parsed to their end and passed the checks of lines
\* 328-342.
ArgumentsAccepted == from \in {"configure", "connect", "select", "run"}
\* ... and the logger provider was created (lines 344-356).
Configured == from \in {"connect", "select", "run"}
EndedOnHelp ==
    /\ from = "getopt"
    /\ \E k \in DOMAIN events :
          events[k].kind = "usage" /\ events[k].a = "out"
EndedOnVersion == from = "getopt" /\ HasEvent("version")
EndedOnUsageError ==
    /\ from = "getopt"
    /\ \E k \in DOMAIN events :
          \/ events[k].kind = "usage" /\ events[k].a = "err"
          \/ events[k].kind = "error"

(***************************************************************************)
(* C7 as claimed.  A finished run whose arguments were accepted and whose  *)
(* connection, if an endpoint was given, succeeded has run exactly one     *)
(* mode, once; a run ended by --help, --version, a usage error or a        *)
(* connection failure has run none; a connection is attempted only if an   *)
(* endpoint was given.                                                     *)
(***************************************************************************)
C7_AsClaimed ==
    /\ (Done /\ ArgumentsAccepted /\ ~ConnectFailed) => Len(modes) = 1
    /\ (Done /\ (EndedOnHelp \/ EndedOnVersion \/ EndedOnUsageError
                    \/ ConnectFailed)) => modes = <<>>
    /\ ConnectAttempts > 0 => argc >= 1

(***************************************************************************)
(* C7 amended.  A finished run whose arguments were accepted, whose logger *)
(* provider was created and whose connection, if an endpoint was given,    *)
(* succeeded has run exactly one of the three modes, once; a run ended by  *)
(* --help, --version, a usage error, a failure to create the logger        *)
(* provider or a connection failure has run none; no run starts more than  *)
(* one mode; and a connection is attempted only if an endpoint was given,  *)
(* and then once.                                                          *)
(***************************************************************************)
C7_ExactlyOneMode ==
    /\ Len(modes) <= 1
    /\ \A k \in DOMAIN modes : modes[k] \in Modes
    /\ (Done /\ Configured /\ ~ConnectFailed) => Len(modes) = 1
    /\ (Done /\ (EndedOnHelp \/ EndedOnVersion \/ EndedOnUsageError
                    \/ from = "configure" \/ ConnectFailed)) => modes = <<>>
    /\ ConnectAttempts <= 1
    /\ ConnectAttempts > 0 => argc >= 1
    /\ (Configured /\ pc # "connect" /\ argc >= 1) => ConnectAttempts = 1

\* An endpoint was given, the connection was made and one mode ran.
C7_Witness ==
    /\ Done
    /\ argc = 1
    /\ ConnectAttempts = 1
    /\ ~ConnectFailed
    /\ Len(modes) = 1
    /\ exitStatus = EXIT_SUCCESS

(***************************************************************************)
(* C8 as claimed.  Every finished run has run cleanup exactly once, with   *)
(* the shell state destroyed once, and has closed the terminal handle at   *)
(* most once.                                                              *)
(***************************************************************************)
C8_AsClaimed ==
    /\ Done => (cleanups = 1 /\ state.destroyed = 1)
    /\ ttyCloses <= 1

(***************************************************************************)
(* C8 amended.  Every run that ends by reaching the end of main() - every  *)
(* exit but the two exit(EXIT_FAILURE) taken before initialisation, when   *)
(* the terminal cannot be opened or the program name cannot be derived -   *)
(* has run cleanup exactly once: the shell state destroyed once, every     *)
(* queued request freed, the logger provider released if it was created,   *)
(* the terminal handle closed if it was still open.  The two early exits   *)
(* run no cleanup.  Cleanup never runs twice and the terminal handle is    *)
(* never closed twice.                                                     *)
(***************************************************************************)
EarlyExit == from \in {"open_tty", "basename"}
Count(kind) == Cardinality({k \in DOMAIN events : events[k].kind = kind})

C8_CleanupOnce ==
    /\ cleanups <= 1
    /\ state.destroyed <= 1
    /\ ttyCloses <= 1
    /\ (Done /\ ~EarlyExit) =>
          /\ cleanups = 1
          /\ state.destroyed = 1
          /\ Count("free_requests") = 1
          /\ LastEvent = Ev("free_requests", "", "", nfile_io_requests)
          /\ Count("logger_free") = (IF provider THEN 1 ELSE 0)
          /\ ttyCloses = (IF env.ttyDev = "ok" THEN 1 ELSE 0)
    /\ (Done /\ EarlyExit) =>
          /\ cleanups = 0
          /\ state.destroyed = 0
          /\ exitStatus = EXIT_FAILURE
    /\ ~Done => cleanups = 0

\* --non-interactive closed the terminal; cleanup did not close it again.
C8_Witness ==
    /\ Done
    /\ seen.nonInteractive
    /\ env.ttyDev = "ok"
    /\ ~tty
    /\ ttyCloses = 1
    /\ cleanups = 1
    /\ provider

(***************************************************************************)
(* C9.  The queue never holds more than NEO4J_MAX_FILE_IO_ARGS entries; a  *)
(* run given more -i/-o options than that has failed in the option loop    *)
(* with the message for it, having opened no file and started no mode; and *)
(* up to that number every -i/-o given is queued.                          *)
(***************************************************************************)
C9_QueueBound ==
    /\ nfile_io_requests <= NEO4J_MAX_FILE_IO_ARGS
    /\ seen.fileOpts > NEO4J_MAX_FILE_IO_ARGS =>
          /\ pc \in {"cleanup", "done"}
          /\ from = "getopt"
          /\ HasError("Too many --source and/or --output args")
          /\ result = EXIT_FAILURE
          /\ Done => exitStatus = EXIT_FAILURE
          /\ NoFileTouched
          /\ modes = <<>>
          /\ nfile_io_requests = NEO4J_MAX_FILE_IO_ARGS
    /\ seen.fileOpts <= NEO4J_MAX_FILE_IO_ARGS =>
          /\ nfile_io_requests = seen.fileOpts
          /\ ~HasError("Too many --source and/or --output args")

\* One option more than the queue holds.
C9_Witness ==
    /\ Done
    /\ seen.fileOpts = NEO4J_MAX_FILE_IO_ARGS + 1
    /\ nfile_io_requests = NEO4J_MAX_FILE_IO_ARGS
    /\ exitStatus = EXIT_FAILURE

(***************************************************************************)
(* C10.  A finished run has exit status success exactly if its mode ran to *)
(* normal completion or it ended on --help or --version; otherwise the     *)
(* status is failure.                                                      *)
(***************************************************************************)
ModeFailed ==
    \E k \in DOMAIN events :
       \/ events[k].kind \in {"open_failed", "read_failed"}
       \/ events[k].kind = "depth_exceeded" /\ events[k].b = ""
ModeCompleted ==
    /\ from = "run"
    /\ Len(modes) = 1
    /\ ~ModeFailed
    /\ modes[1] = "FileIoPipeline" => i = nfile_io_requests

C10_ExitStatus ==
    Done =>
       /\ exitStatus \in {EXIT_SUCCESS, EXIT_FAILURE}
       /\ exitStatus = EXIT_SUCCESS
             <=> (ModeCompleted \/ EndedOnHelp \/ EndedOnVersion)

\* The connection failed.
C10_Witness ==
    /\ Done
    /\ from = "connect"
    /\ ConnectFailed
    /\ exitStatus = EXIT_FAILURE


(***************************************************************************)
(* Password prompting and the callbacks of the connection configuration.   *)
(***************************************************************************)
CannotPromptMsg == "Cannot prompt for a password without a tty"

\* Lines 344-373 have been passed: the callbacks are set or left unset.
PastConfigure ==
    \/ pc \in {"connect", "select", "run"}
    \/ pc \in {"cleanup", "done"} /\ Configured

HostCallback == config.unverified_host_callback
AuthCallback == config.authentication_reattempt_callback

\* The run is not interactive for one of the reasons an invocation can
\* give: stdin is not a terminal, -i or -o was given, --non-interactive was
\* given.
NonInteractiveRun ==
    ~env.stdinTTY \/ seen.fileOpts > 0 \/ seen.nonInteractive

(***************************************************************************)
(* C11 as claimed.  Once -P has been given, either the run has failed in   *)
(* the option loop with the message that no terminal is there to prompt    *)
(* on, or password prompting is enabled and, from configuration on, the    *)
(* authentication-reattempt callback is registered - whatever options came *)
(* before or after -P.                                                     *)
(***************************************************************************)
C11_AsClaimed ==
    seen.forcePrompt =>
       \/ /\ HasError(CannotPromptMsg)
          /\ pc \in {"cleanup", "done"}
          /\ from = "getopt"
          /\ result = EXIT_FAILURE
       \/ /\ state.password_prompt
          /\ PastConfigure => AuthCallback

IsNumeral(s) ==
    LET digits == IF s # <<>> /\ Head(s) \in {"-", "+"} THEN Tail(s) ELSE s
    IN /\ digits # <<>>
       /\ \A k \in DOMAIN digits : digits[k] \in DigitChars

\* The step in which the option loop takes a --pipeline-max, and the
\* argument it was given.
PipelineMaxStep == Len(seen'.pipelineMax) = Len(seen.pipelineMax) + 1
PipelineMaxGiven == seen'.pipelineMax[Len(seen'.pipelineMax)]

(***************************************************************************)
(* C15 as claimed.  A --pipeline-max whose argument is a numeral n >= 1 is *)
(* accepted, the shell's pipeline-max becomes n and the hint of the        *)
(* connection configuration 2*n; one whose argument is 0, negative or not  *)
(* a numeral sends main() to cleanup with a failure result and the message *)
(* for it, and leaves the hint as it was.                                  *)
(***************************************************************************)
C15_AsClaimed ==
    [][PipelineMaxStep =>
         IF IsNumeral(PipelineMaxGiven) /\ Atoi(PipelineMaxGiven) >= 1
         THEN /\ pc' = "getopt"
              /\ state'.pipeline_max = Atoi(PipelineMaxGiven)
              /\ config'.max_pipelined_requests = 2 * Atoi(PipelineMaxGiven)
         ELSE /\ pc' = "cleanup"
              /\ result' = EXIT_FAILURE
              /\ events' = Append(events,
                                  Ev("error", "Invalid pipeline-max", "", 0))
              /\ config'.max_pipelined_requests = config.max_pipelined_requests
              /\ state'.pipeline_max = state.pipeline_max]_vars

(***************************************************************************)
(* The usage message.                                                      *)
(***************************************************************************)
\* The step in which usage() is called, and the stream it is given.
UsageWritten ==
    /\ Len(events') = Len(events) + 1
    /\ events'[Len(events')].kind = "usage"
UsageStream == events'[Len(events')].a

(***************************************************************************)
(* C16 as claimed.  Whenever the usage message is written - on --help, on  *)
(* an unrecognized option, on more than one positional argument - it is    *)
(* written to the error stream and main() goes to cleanup.                 *)
(***************************************************************************)
C16_AsClaimed ==
    [][UsageWritten => (UsageStream = "err" /\ pc' = "cleanup")]_vars

(***************************************************************************)
(* C16 amended.  The usage message is written in the option loop or at the *)
(* check of the positional arguments, and main() then goes to cleanup: on  *)
(* --help to the output stream with result success, on an unrecognized     *)
(* option and on more than one positional argument to the error stream     *)
(* with result failure.  A run that wrote it wrote it once, attempted no   *)
(* connection, started no mode, opened no file, and exits with success     *)
(* exactly if it wrote it to the output stream.                            *)
(***************************************************************************)
C16_UsageStreams ==
    /\ [][UsageWritten =>
            /\ pc = "getopt" /\ pc' = "cleanup"
            /\ \/ /\ UsageStream = "out"
                  /\ result' = EXIT_SUCCESS
                  /\ nargs' = nargs + 1
               \/ /\ UsageStream = "err"
                  /\ result' = EXIT_FAILURE]_vars
    /\ [][(OptionsExhausted /\ argc' > 1) =>
            (UsageWritten /\ UsageStream = "err")]_vars
    /\ []((Done /\ HasEvent("usage")) =>
            /\ from = "getopt"
            /\ Count("usage") = 1
            /\ ConnectAttempts = 0
            /\ modes = <<>>
            /\ NoFileTouched
            /\ exitStatus = EXIT_SUCCESS <=> EndedOnHelp)

\* --help after another option: usage on the output stream, success.
C16_Witness ==
    /\ Done
    /\ nargs >= 2
    /\ \E k \in DOMAIN events :
          events[k].kind = "usage" /\ events[k].a = "out"
    /\ exitStatus = EXIT_SUCCESS
    /\ cleanups = 1


(***************************************************************************)
(* C17.  The nesting depth is never negative and never above               *)
(* source-max-depth.  While a mode runs it is the number of streams being  *)
(* read.  The guard acts on entry: a file is entered only if the depth     *)
(* after entering is within the limit, and entering adds one; an inclusion *)
(* that is refused or whose file cannot be opened leaves the depth as it   *)
(* was and opens no stream; and when sourced files are left the depth goes *)
(* down by their number, so that after a source attempt it is what it was  *)
(* before.                                                                 *)
(***************************************************************************)
\* The sourced files being read, none when no stream is.
SourcedFiles == IF stack = <<>> THEN 0 ELSE FileFrames

OpenFailed ==
    /\ Len(events') = Len(events) + 1
    /\ events'[Len(events')].kind \in {"open_failed", "include_failed"}

C17_DepthBounded ==
    /\ [](/\ 0 <= state.source_depth
          /\ state.source_depth <= state.source_max_depth)
    /\ [](pc = "run" => state.source_depth = Len(stack))
    /\ [][Entered =>
            /\ state.source_depth + 1 <= state.source_max_depth
            /\ state'.source_depth = state.source_depth + 1
            /\ Len(stack') = Len(stack) + 1
            /\ stack'[Len(stack')].pos = 1]_vars
    /\ [][(Refused \/ OpenFailed) =>
            /\ state'.source_depth = state.source_depth
            /\ Len(stack') = Len(stack)]_vars
    /\ [][Len(stack') < Len(stack) =>
            state'.source_depth =
                state.source_depth - (SourcedFiles - SourcedFiles')]_vars

\* The pipeline with source-max-depth 2: the file included from the queued
\* file has been read and left, after its own inclusion was refused, and
\* the depth is 1 again.
C17_Witness ==
    /\ modes = <<"FileIoPipeline">>
    /\ pc = "run"
    /\ state.source_max_depth = 2
    /\ Len(stack) = 1
    /\ state.source_depth = 1
    /\ Top.pos = 3
    /\ HasEvent("include")
    /\ HasEvent("depth_exceeded")

(***************************************************************************)
(* C18.  A callback is registered only at configuration.  From then on the *)
(* unverified-host callback is registered exactly if the terminal handle   *)
(* is open, whatever stdin is; the authentication-reattempt callback is    *)
(* registered exactly if the terminal handle is open and password          *)
(* prompting is enabled, which it is exactly if -P was accepted or the run *)
(* is interactive.                                                         *)
(***************************************************************************)
InteractiveRun ==
    env.stdinTTY /\ seen.fileOpts = 0 /\ ~seen.nonInteractive

C18_CallbackRegistration ==
    /\ (HostCallback \/ AuthCallback) => (PastConfigure /\ tty)
    /\ AuthCallback => (state.password_prompt /\ HostCallback)
    /\ PastConfigure =>
          /\ HostCallback <=> tty
          /\ state.password_prompt <=>
                (InteractiveRun
                    \/ (seen.forcePrompt /\ ~HasError(CannotPromptMsg)))
          /\ AuthCallback <=> (tty /\ state.password_prompt)

\* stdin is a terminal but /dev/tty does not exist: the interactive mode ran
\* with password prompting enabled and no callback registered.
C18_Witness ==
    /\ Done
    /\ env.stdinTTY
    /\ env.ttyDev = "enoent"
    /\ modes = <<"Interactive">>
    /\ state.password_prompt
    /\ ~HostCallback /\ ~AuthCallback

(***************************************************************************)
(* C19.  From the option loop on, error text is colorized exactly if the   *)
(* last of the colour flags given so far was --colorize, or no colour flag *)
(* was given and the error stream is a terminal.                           *)
(***************************************************************************)
ParsingReached ==
    \/ pc \in {"getopt", "configure", "connect", "select", "run"}
    \/ /\ pc \in {"cleanup", "done"}
       /\ from \in {"getopt", "configure", "connect", "select", "run"}

C19_ColorizeLastWins ==
    ParsingReached =>
       (state.error_colorize <=>
           IF seen.color = <<>> THEN env.stderrTTY
           ELSE seen.color[Len(seen.color)] = "on")

\* --colorize then --no-colorize with the error stream a terminal: off.
C19_Witness ==
    /\ Done
    /\ ArgumentsAccepted
    /\ env.stderrTTY
    /\ seen.color = <<"on", "off">>
    /\ ~state.error_colorize

(***************************************************************************)
(* C20.  When a mode has been started the configuration holds no password, *)
(* whether or not -p was given and whether or not a connection was         *)
(* attempted.  The configuration holds a password only if -p was given and *)
(* main() has not got past the connection attempt: it is in the option     *)
(* loop, at configuration or at the connection, or it left one of these    *)
(* for cleanup - from the connection only when the connection failed.      *)
(***************************************************************************)
C20_PasswordCleared ==
    /\ (modes # <<>> \/ pc \in {"select", "run"}) => ~config.password
    /\ config.password =>
          /\ seen.password
          /\ \/ pc \in {"getopt", "configure", "connect"}
             \/ /\ pc \in {"cleanup", "done"}
                /\ from \in {"getopt", "configure", "connect"}
          /\ (pc \in {"cleanup", "done"} /\ from = "connect") => ConnectFailed

\* -p given and no endpoint: no connection was attempted and a mode ran
\* without the password.
C20_Witness ==
    /\ Done
    /\ seen.password
    /\ argc = 0
    /\ ConnectAttempts = 0
    /\ Len(modes) = 1
    /\ ~config.password
    /\ exitStatus = EXIT_SUCCESS

====
